---- MODULE Spec2Model ----
(***************************************************************************)
(* catsim/irt.py: the logistic response model, item and test information,  *)
(* standard error, reliability, the log-likelihood, and the item-bank      *)
(* normaliser and validator.                                               *)
(*                                                                         *)
(* Every function of the module is pure.  The state is the last call made  *)
(* (op, args), what it returned or raised (ret) and what it printed        *)
(* (stdout).  One action per function draws the arguments from bounded     *)
(* sets and evaluates the function as the code does.                       *)
(*                                                                         *)
(* Floating point numbers are carried as (n/d) * 2^e with n, d odd and     *)
(* coprime; d = 0 marks inf, -inf and nan.  A double whose significand     *)
(* does not fit n carries its low 27 bits in a further field lo.           *)
(* Arithmetic is exact except where a double cannot follow: an addend      *)
(* below half an ulp of the other is absorbed, the quotient of the /       *)
(* operator and a sum with such a quotient are rounded to 53 bits (to      *)
(* nearest, ties to even), math.exp overflows or underflows to 0.0, and    *)
(* the division by zero follows the type of its operands (Python float:    *)
(* raises, numpy.float64: inf/nan with a warning).                         *)
(***************************************************************************)
EXTENDS Integers, Sequences, FiniteSets, TLC

VARIABLES op, args, ret, stdout

vars == <<op, args, ret, stdout>>

\* Largest number of rows of an item matrix, and of entries of a response vector.
MaxRows == 2

(***************************************************************************)
(* Numbers                                                                 *)
(***************************************************************************)
Abs(m) == IF m < 0 THEN -m ELSE m

Sgn(m) == IF m > 0 THEN 1 ELSE IF m < 0 THEN -1 ELSE 0

RECURSIVE GCD(_, _)
GCD(p, q) == IF q = 0 THEN p ELSE GCD(q, p % q)

RECURSIVE TwoExp(_)
TwoExp(m) == IF m % 2 = 0 THEN 1 + TwoExp(m \div 2) ELSE 0

RECURSIVE OddPart(_)
OddPart(m) == IF m % 2 = 0 THEN OddPart(m \div 2) ELSE m

RECURSIVE Pow2(_)
Pow2(k) == IF k = 0 THEN 1 ELSE 2 * Pow2(k - 1)

RECURSIVE ILog2(_)
ILog2(m) == IF m <= 1 THEN 0 ELSE 1 + ILog2(m \div 2)

Zero == [n |-> 0, d |-> 1, e |-> 0]

PosInf == [n |-> 1, d |-> 0, e |-> 0]

NegInf == [n |-> -1, d |-> 0, e |-> 0]

NaN == [n |-> 0, d |-> 0, e |-> 0]

\* The number (n/d) * 2^e in lowest terms, d > 0.
Num(n, d, e) ==
    IF n = 0 THEN Zero
    ELSE LET g  == GCD(Abs(n), d)
             n1 == Abs(n) \div g
             d1 == d \div g
         IN  [n |-> Sgn(n) * OddPart(n1), d |-> OddPart(d1),
              e |-> e + TwoExp(n1) - TwoExp(d1)]

FromInt(k) == Num(k, 1, 0)

One == FromInt(1)

IsFinite(x) == x.d # 0

IsNaN(x) == x = NaN

SignedInf(s) == IF s > 0 THEN PosInf ELSE IF s < 0 THEN NegInf ELSE NaN

Neg(x) == [x EXCEPT !.n = -x.n]

\* 2^LoExp(x) < |x| < 2^HiExp(x) for a finite non-zero x.
LoExp(x) == x.e + ILog2(Abs(x.n)) - ILog2(x.d) - 1

HiExp(x) == x.e + ILog2(Abs(x.n)) - ILog2(x.d) + 1

\* y is below half an ulp of x (53-bit significand): x + y rounds to x.
Absorbs(x, y) == LoExp(x) - HiExp(y) >= 53

\* A double of more than 30 significant bits: it is
\* sgn(n) * (|n| + lo / 2^27) * 2^e, |n| holding the 26 high bits of the
\* significand and lo the 27 low ones.
IsWide(x) == "lo" \in DOMAIN x

\* The binary digits of m >= 0, the most significant first.
BitsOf(m) ==
    [i \in 1..(IF m = 0 THEN 0 ELSE ILog2(m) + 1) |->
        (m \div Pow2(ILog2(m) + 1 - i)) % 2]

\* The number of at most 30 digits.
RECURSIVE IntOf(_)
IntOf(bits) ==
    IF Len(bits) = 0 THEN 0
    ELSE 2 * IntOf(SubSeq(bits, 1, Len(bits) - 1)) + bits[Len(bits)]

Zeros(k) == [i \in 1..k |-> 0]

PadLeft(bits, len) == Zeros(len - Len(bits)) \o bits

\* The positions of the first and of the last digit 1.
FirstOne(bits) ==
    CHOOSE i \in 1..Len(bits) : bits[i] = 1 /\ \A j \in 1..(i - 1) : bits[j] = 0

LastOne(bits) ==
    CHOOSE i \in 1..Len(bits) : bits[i] = 1 /\ \A j \in (i + 1)..Len(bits) : bits[j] = 0

StripLeft(bits) ==
    IF \A i \in 1..Len(bits) : bits[i] = 0 THEN <<>>
    ELSE SubSeq(bits, FirstOne(bits), Len(bits))

TrailingZeros(bits) ==
    IF \A i \in 1..Len(bits) : bits[i] = 0 THEN 0 ELSE Len(bits) - LastOne(bits)

\* The digits of |x| for a finite double x, and the exponent of the last one.
Significand(x) ==
    IF IsWide(x) THEN BitsOf(Abs(x.n)) \o PadLeft(BitsOf(x.lo), 27)
    ELSE BitsOf(Abs(x.n))

LsbExp(x) == IF IsWide(x) THEN x.e - 27 ELSE x.e

\* The carry into position p of X + Y (out of position p + 1), X and Y digit
\* sequences of one length: some lower position generates it and every
\* position between passes it on.
CarryInto(X, Y, p) ==
    IF \E j \in (p + 1)..Len(X) :
           /\ X[j] + Y[j] = 2
           /\ \A k \in (p + 1)..(j - 1) : X[k] + Y[k] = 1
    THEN 1 ELSE 0

\* X + Y, one digit longer.
BAdd(X, Y) ==
    [i \in 1..(Len(X) + 1) |->
        IF i = 1 THEN CarryInto(X, Y, 0)
        ELSE (X[i - 1] + Y[i - 1] + CarryInto(X, Y, i - 1)) % 2]

\* The borrow from position p of X - Y.
BorrowFrom(X, Y, p) ==
    IF \E j \in (p + 1)..Len(X) :
           /\ X[j] < Y[j]
           /\ \A k \in (p + 1)..(j - 1) : X[k] = Y[k]
    THEN 1 ELSE 0

\* X - Y for X >= Y.
BSub(X, Y) ==
    [i \in 1..Len(X) |-> (X[i] - Y[i] - BorrowFrom(X, Y, i) + 2) % 2]

\* -1, 0, 1 as X < Y, X = Y, X > Y, on digit sequences of one length.
BCmp(X, Y) ==
    IF \A i \in 1..Len(X) : X[i] = Y[i] THEN 0
    ELSE IF X[FirstOne([i \in 1..Len(X) |-> IF X[i] # Y[i] THEN 1 ELSE 0])] = 1 THEN 1
    ELSE -1

\* The double s * bits * 2^g; bits has at most 53 digits and no leading 0.
Pack(s, bits, g) ==
    IF Len(bits) = 0 THEN Zero
    ELSE IF Len(bits) - TrailingZeros(bits) <= 30
    THEN Num(s * IntOf(SubSeq(bits, 1, Len(bits) - TrailingZeros(bits))), 1,
             g + TrailingZeros(bits))
    ELSE [n  |-> s * IntOf(SubSeq(bits \o Zeros(53 - Len(bits)), 1, 26)),
          lo |-> IntOf(SubSeq(bits \o Zeros(53 - Len(bits)), 27, 53)),
          d  |-> 1,
          e  |-> g + Len(bits) - 26]

\* Round to nearest, ties to even: the double nearest to s * (bits + f) * 2^g,
\* where 0 <= f < 1 and sticky = 1 iff f > 0; bits has no leading 0 and,
\* when sticky = 1, at least 55 digits.
RoundBits(s, bits, sticky, g) ==
    IF Len(bits) <= 53 THEN Pack(s, bits, g)
    ELSE IF /\ bits[54] = 1
            /\ \/ bits[53] = 1
               \/ sticky = 1
               \/ \E i \in 55..Len(bits) : bits[i] = 1
    THEN Pack(s, StripLeft(BAdd(SubSeq(bits, 1, 53), Zeros(52) \o <<1>>)),
              g + Len(bits) - 53)
    ELSE Pack(s, SubSeq(bits, 1, 53), g + Len(bits) - 53)

\* 2^j mod D, D below 2^15.
RECURSIVE TwoPowMod(_, _)
TwoPowMod(j, D) ==
    IF j <= 15 THEN Pow2(j) % D
    ELSE (TwoPowMod(j - 15, D) * (Pow2(15) % D)) % D

\* The remainder of N * 2^j by D.
RemAt(N, D, j) == ((N % D) * TwoPowMod(j, D)) % D

\* The digits of the integer part of N * 2^K / D, by long division.
QuotBits(N, D, K) ==
    BitsOf(N \div D) \o [j \in 1..K |-> (2 * RemAt(N, D, j - 1)) \div D]

\* The double nearest to x: what the / operator returns for the quotient x.
\* The division is carried to 55 digits at least.
Rounded(x) ==
    IF ~IsFinite(x) \/ IsWide(x) \/ x.n = 0 \/ x.d = 1 THEN x
    ELSE RoundBits(Sgn(x.n),
                   StripLeft(QuotBits(Abs(x.n), x.d, 55 + ILog2(x.d))),
                   IF RemAt(Abs(x.n), x.d, 55 + ILog2(x.d)) # 0 THEN 1 ELSE 0,
                   x.e - (55 + ILog2(x.d)))

\* X and Y are the digits of |x| and |y| on the grid 2^g, of one length.
AddAligned(sx, X, sy, Y, g) ==
    IF sx = sy THEN RoundBits(sx, StripLeft(BAdd(X, Y)), 0, g)
    ELSE IF BCmp(X, Y) = 0 THEN Zero
    ELSE IF BCmp(X, Y) > 0 THEN RoundBits(sx, StripLeft(BSub(X, Y)), 0, g)
    ELSE RoundBits(sy, StripLeft(BSub(Y, X)), 0, g)

Max(p, q) == IF p > q THEN p ELSE q

Min(p, q) == IF p < q THEN p ELSE q

\* The digits of |x| on the grid 2^g, g <= LsbExp(x), in len digits.
OnGrid(x, g, len) == PadLeft(Significand(x) \o Zeros(LsbExp(x) - g), len)

GridLen(x, y) ==
    Max(Len(Significand(x)) + LsbExp(x), Len(Significand(y)) + LsbExp(y))
        - Min(LsbExp(x), LsbExp(y))

\* x + y for finite non-zero doubles, rounded.
AddRounded(x, y) ==
    AddAligned(Sgn(x.n), OnGrid(x, Min(LsbExp(x), LsbExp(y)), GridLen(x, y)),
               Sgn(y.n), OnGrid(y, Min(LsbExp(x), LsbExp(y)), GridLen(x, y)),
               Min(LsbExp(x), LsbExp(y)))

\* x and y are doubles that the digit sequences must handle: the numerators
\* on a common grid do not fit the integers.
ByDigits(x, y) ==
    \/ IsWide(x)
    \/ IsWide(y)
    \/ /\ x.d = 1
       /\ y.d = 1
       /\ ILog2(Abs(x.n)) + ILog2(Abs(y.n)) + Abs(x.e - y.e) > 28

Add(x, y) ==
    IF IsNaN(x) \/ IsNaN(y) THEN NaN
    ELSE IF ~IsFinite(x) /\ ~IsFinite(y) THEN (IF x = y THEN x ELSE NaN)
    ELSE IF ~IsFinite(x) THEN x
    ELSE IF ~IsFinite(y) THEN y
    ELSE IF x.n = 0 THEN y
    ELSE IF y.n = 0 THEN x
    ELSE IF Absorbs(x, y) THEN x
    ELSE IF Absorbs(y, x) THEN y
    ELSE IF ByDigits(x, y) THEN AddRounded(x, y)
    ELSE LET m == IF x.e < y.e THEN x.e ELSE y.e
         IN  Num(x.n * y.d * Pow2(x.e - m) + y.n * x.d * Pow2(y.e - m),
                 x.d * y.d, m)

Sub(x, y) == Add(x, Neg(y))

Mul(x, y) ==
    IF IsNaN(x) \/ IsNaN(y) THEN NaN
    ELSE IF ~IsFinite(x) \/ ~IsFinite(y) THEN SignedInf(Sgn(x.n) * Sgn(y.n))
    ELSE Num(x.n * y.n, x.d * y.d, x.e + y.e)

\* The quotient x / y, exact; x / 0 is inf or nan, never an error.
DivF(x, y) ==
    IF IsNaN(x) \/ IsNaN(y) THEN NaN
    ELSE IF ~IsFinite(y) THEN (IF IsFinite(x) THEN Zero ELSE NaN)
    ELSE IF ~IsFinite(x) THEN SignedInf(Sgn(x.n) * (IF y.n < 0 THEN -1 ELSE 1))
    ELSE IF y.n = 0 THEN SignedInf(Sgn(x.n))
    ELSE Num(x.n * y.d * Sgn(y.n), x.d * Abs(y.n), x.e - y.e)

\* |x| against |y| for finite non-zero x, y: by magnitude where the exponents
\* settle it, else exactly.
MagCmp(x, y) ==
    IF HiExp(x) <= LoExp(y) THEN -1
    ELSE IF HiExp(y) <= LoExp(x) THEN 1
    ELSE IF ByDigits(x, y)
    THEN BCmp(OnGrid(x, Min(LsbExp(x), LsbExp(y)), GridLen(x, y)),
              OnGrid(y, Min(LsbExp(x), LsbExp(y)), GridLen(x, y)))
    ELSE LET m == IF x.e < y.e THEN x.e ELSE y.e
         IN  Sgn(Abs(x.n) * y.d * Pow2(x.e - m) - Abs(y.n) * x.d * Pow2(y.e - m))

\* -1, 0, 1 as x < y, x = y, x > y; neither is nan.
Cmp(x, y) ==
    IF x = y THEN 0
    ELSE IF x = PosInf \/ y = NegInf THEN 1
    ELSE IF x = NegInf \/ y = PosInf THEN -1
    ELSE IF Sgn(x.n) # Sgn(y.n) THEN Sgn(Sgn(x.n) - Sgn(y.n))
    ELSE Sgn(x.n) * MagCmp(x, y)

Lt(x, y) == ~IsNaN(x) /\ ~IsNaN(y) /\ Cmp(x, y) < 0

Le(x, y) == ~IsNaN(x) /\ ~IsNaN(y) /\ Cmp(x, y) <= 0

(***************************************************************************)
(* Outcomes of a call                                                      *)
(***************************************************************************)
\* A returned value and its type: "int", "float" (Python) or "float64" (numpy).
Val(v, ty) == [kind |-> "val", v |-> v, ty |-> ty]

\* A raised exception: its class, its message and the values it carries.
Raise(exc, msg, vals) == [kind |-> "err", exc |-> exc, msg |-> msg, vals |-> vals]

IsErr(r) == r.kind = "err"

\* The type of a float operation on operands of types t1 and t2.
Join(t1, t2) == IF t1 = "float64" \/ t2 = "float64" THEN "float64" ELSE "float"

\* x / y. Python's division by zero raises; numpy's returns inf or nan (and
\* warns).
Divide(x, tx, y, ty) ==
    IF Join(tx, ty) = "float" /\ y = Zero
    THEN Raise("ZeroDivisionError",
               IF tx = "int" /\ ty = "int" THEN "division by zero"
               ELSE "float division by zero", <<>>)
    ELSE Val(Rounded(DivF(x, y)), Join(tx, ty))

(***************************************************************************)
(* tpm                                                                     *)
(***************************************************************************)
\* math.exp on the arguments the model draws: exactly 0, at or above 710
\* (beyond the largest double), at or below -746 (rounds to 0.0).
MathExp(x) ==
    CASE x = Zero -> Val(One, "float")
      [] Le(FromInt(710), x) -> Raise("OverflowError", "math range error", <<>>)
      [] Le(x, FromInt(-746)) -> Val(Zero, "float")

\* except OverflowError as ofe: building the message reads ofe.strerror, an
\* attribute only OSError has.
OverflowHandler(ofe, theta, a, b, c) ==
    Raise("AttributeError", "'OverflowError' object has no attribute 'strerror'", <<>>)

\* The return of tpm, ex being the outcome of math.exp(-a * (theta - b)).
tpmReturn(ex, theta, a, b, c, ty) ==
    IF IsErr(ex) THEN OverflowHandler(ex, theta, a, b, c)
    ELSE Val(Add(c, DivF(Sub(One, c), Add(One, ex.v))), ty)

\* c + ((1 - c) / (1 + math.exp(-a * (theta - b)))); ty is the type of c.
tpm(theta, a, b, c, ty) ==
    tpmReturn(MathExp(Mul(Neg(a), Sub(theta, b))), theta, a, b, c, ty)

(***************************************************************************)
(* inf                                                                     *)
(***************************************************************************)
\* math.pow(x, 2), a Python float
Pow(x) == Mul(x, x)

\* ... * (1 - ml3) / ml3, ratio being the outcome of
\* math.pow(ml3 - c, 2) / math.pow(1 - c, 2).
infQuotient(ratio, ml3, a) ==
    IF IsErr(ratio) THEN ratio
    ELSE Divide(Mul(Mul(Pow(a), ratio.v), Sub(One, ml3.v)), ml3.ty, ml3.v, ml3.ty)

\* The return of inf, ml3 being the outcome of tpm.
infReturn(ml3, a, c) ==
    IF IsErr(ml3) THEN ml3
    ELSE infQuotient(Divide(Pow(Sub(ml3.v, c)), "float", Pow(Sub(One, c)), "float"),
                     ml3, a)

inf(theta, a, b, c, ty) == infReturn(tpm(theta, a, b, c, ty), a, c)

(***************************************************************************)
(* test_info, see, reliability                                             *)
(***************************************************************************)
\* ((0 + f[1]) + f[2]) + ... + f[k], as the builtin sum adds.
RECURSIVE SumTo(_, _)
SumTo(f, k) == IF k = 0 THEN Zero ELSE Add(SumTo(f, k - 1), f[k])

\* items: a sequence of rows <<a, b, c>>; ty: the type of their entries
\* ("float64" for the rows of an ndarray, "float" for a list of lists).
\* The element of the list comprehension for the i-th row.
InfOfRow(theta, items, ty, i) == inf(theta, items[i][1], items[i][2], items[i][3], ty)

\* The rows whose inf raises: the first of them ends the comprehension.
Raising(theta, items, ty) ==
    {i \in 1..Len(items) : IsErr(InfOfRow(theta, items, ty, i))}

\* test_info with the last row left out of the sum.
test_info_skips_a_row(theta, items, ty) ==
    IF Raising(theta, items, ty) # {}
    THEN InfOfRow(theta, items, ty,
                  CHOOSE i \in Raising(theta, items, ty) :
                      \A j \in Raising(theta, items, ty) : i <= j)
    ELSE Val(SumTo([i \in 1..Len(items) |-> InfOfRow(theta, items, ty, i).v],
                   IF Len(items) = 0 THEN 0 ELSE Len(items) - 1),
             IF Len(items) = 0 THEN "int" ELSE ty)

test_info(theta, items, ty) ==
    IF Raising(theta, items, ty) # {}
    THEN InfOfRow(theta, items, ty,
                  CHOOSE i \in Raising(theta, items, ty) :
                      \A j \in Raising(theta, items, ty) : i <= j)
    ELSE Val(SumTo([i \in 1..Len(items) |-> InfOfRow(theta, items, ty, i).v],
                   Len(items)),
             IF Len(items) = 0 THEN "int" ELSE ty)

IsSquare(m) == \E k \in 1..m : k * k = m

Root(m) == CHOOSE k \in 1..m : k * k = m

\* math.sqrt. A root that is no (n/d) * 2^e is carried as [sqrtOf |-> x].
MathSqrt(x) ==
    IF IsNaN(x) THEN Val(NaN, "float")
    ELSE IF Lt(x, Zero) THEN Raise("ValueError", "math domain error", <<>>)
    ELSE IF x = Zero \/ x = PosInf THEN Val(x, "float")
    ELSE IF x.e % 2 = 0 /\ IsSquare(x.n) /\ IsSquare(x.d)
         THEN Val([n |-> Root(x.n), d |-> Root(x.d), e |-> x.e \div 2], "float")
         ELSE Val([sqrtOf |-> x], "float")

IsSurd(x) == "sqrtOf" \in DOMAIN x

\* 1 / s for a non-zero Python float s
Recip(s) == IF IsSurd(s) THEN [sqrtOf |-> DivF(One, s.sqrtOf)] ELSE DivF(One, s)

\* 1 / s, s being the outcome of math.sqrt.
seeQuotient(s) ==
    IF IsErr(s) THEN s
    ELSE IF s.v = Zero THEN Raise("ZeroDivisionError", "float division by zero", <<>>)
    ELSE Val(Recip(s.v), "float")

\* see as its docstring has it, 1 / I with no square root.
seeReturn_no_sqrt(ti) == IF IsErr(ti) THEN ti ELSE seeQuotient(Val(ti.v, "float"))

\* The return of see, ti being the outcome of test_info.
seeReturn(ti) == IF IsErr(ti) THEN ti ELSE seeQuotient(MathSqrt(ti.v))

see(theta, items, ty) == seeReturn(test_info(theta, items, ty))

\* reliability with the negative values clamped to 0.
reliabilityDifference_clamped(q) ==
    IF IsErr(q) THEN q
    ELSE IF Lt(Sub(One, q.v), Zero) THEN Val(Zero, q.ty)
    ELSE Val(Sub(One, q.v), q.ty)

\* 1 - q, q being the outcome of 1 / test_info.
reliabilityDifference(q) == IF IsErr(q) THEN q ELSE Val(Sub(One, q.v), q.ty)

\* The return of reliability, ti being the outcome of test_info.
reliabilityReturn(ti) ==
    IF IsErr(ti) THEN ti ELSE reliabilityDifference(Divide(One, "int", ti.v, ti.ty))

reliability(theta, items, ty) == reliabilityReturn(test_info(theta, items, ty))

(***************************************************************************)
(* logLik, negativelogLik                                                  *)
(***************************************************************************)
\* math.log. The logarithm of x is carried as [lnOf |-> x].
MathLog(x) ==
    IF IsNaN(x) THEN Val([lnOf |-> NaN], "float")
    ELSE IF Le(x, Zero) THEN Raise("ValueError", "math domain error", <<>>)
    ELSE Val([lnOf |-> x], "float")

\* r * math.log(x) for a response r in {0, 1}
Times(r, l) == IF r = 1 THEN l ELSE [lnOf |-> One]

\* ln x + ln y
AddLog(l1, l2) == [lnOf |-> Mul(l1.lnOf, l2.lnOf)]

RECURSIVE logLikLoop(_, _, _, _, _)

\* LL += x * math.log(prob) + (1 - x) * math.log(1 - prob) and the rest of the
\* loop; l1 and l2 are the outcomes of the two logarithms, taken in this order.
logLikAdd(l1, l2, est_theta, response_vector, administered_items, i, LL) ==
    IF IsErr(l1) THEN l1
    ELSE IF IsErr(l2) THEN l2
    ELSE logLikLoop(est_theta, response_vector, administered_items, i + 1,
                    Val(AddLog(LL.v, AddLog(Times(response_vector[i], l1.v),
                                            Times(1 - response_vector[i], l2.v))),
                        "float"))

\* The body of the loop once prob, the outcome of tpm, is known.
logLikItem(prob, est_theta, response_vector, administered_items, i, LL) ==
    IF IsErr(prob) THEN prob
    ELSE logLikAdd(MathLog(prob.v), MathLog(Sub(One, prob.v)),
                   est_theta, response_vector, administered_items, i, LL)

\* The loop of logLik from index i on (1-based), LL so far.
logLikLoop(est_theta, response_vector, administered_items, i, LL) ==
    IF i > Len(response_vector) THEN LL
    ELSE IF i > Len(administered_items)
    THEN Raise("IndexError", "index out of bounds", <<>>)
    ELSE logLikItem(tpm(est_theta, administered_items[i][1], administered_items[i][2],
                        administered_items[i][3], "float64"),
                    est_theta, response_vector, administered_items, i, LL)

LengthMismatch ==
    Raise("ValueError",
          "Response vector and administered items must have the same number of items",
          <<>>)

\* The loop's outcome, and the lengths compared only once it is over.
checkAfter(LL, response_vector, administered_items) ==
    IF IsErr(LL) THEN LL
    ELSE IF Len(response_vector) # Len(administered_items) THEN LengthMismatch
    ELSE LL

\* logLik with the lengths compared after the loop.
logLik_checks_last(est_theta, response_vector, administered_items) ==
    checkAfter(logLikLoop(est_theta, response_vector, administered_items, 1,
                          Val([lnOf |-> One], "int")),
               response_vector, administered_items)

logLik(est_theta, response_vector, administered_items) ==
    IF Len(response_vector) # Len(administered_items) THEN LengthMismatch
    ELSE logLikLoop(est_theta, response_vector, administered_items, 1,
                    Val([lnOf |-> One], "int"))

\* LL returned with its sign unchanged.
Negated_sign_kept(LL) == LL

\* -LL, LL being the outcome of logLik.
Negated(LL) == IF IsErr(LL) THEN LL ELSE Val([lnOf |-> DivF(One, LL.v.lnOf)], LL.ty)

negativelogLik(est_theta, response_vector, administered_items) ==
    Negated(logLik(est_theta, response_vector, administered_items))

(***************************************************************************)
(* normalize_item_bank, validate_item_bank                                 *)
(***************************************************************************)
\* A two-dimensional ndarray of k columns; its rows are sequences of k numbers.
Matrix(k, rows) == [pytype |-> "ndarray", ndim |-> 2, k |-> k, rows |-> rows]

\* A one-dimensional ndarray.
Vector(elems) == [pytype |-> "ndarray", ndim |-> 1, elems |-> elems]

\* numpy.ones((n)), numpy.zeros((n)): (n) is the integer n, the array has one
\* dimension.
NumpyOnes(n) == Vector([i \in 1..n |-> One])

NumpyZeros(n) == Vector([i \in 1..n |-> Zero])

\* numpy.append(arr, values, axis=1): concatenate((arr, values), axis=1)
NumpyAppend(arr, values, axis) ==
    IF axis >= arr.ndim
    THEN Raise("AxisError", "axis 1 is out of bounds for array of dimension 1", <<>>)
    ELSE IF arr.ndim # values.ndim
    THEN Raise("ValueError",
               "all the input arrays must have same number of dimensions", <<>>)
    ELSE IF Len(arr.rows) # Len(values.rows)
    THEN Raise("ValueError", "all the input array dimensions must match", <<>>)
    ELSE Val(Matrix(arr.k + values.k,
                    [i \in 1..Len(arr.rows) |-> arr.rows[i] \o values.rows[i]]),
             "ndarray")

\* if items.shape[1] == 2: append the column of zeros; first is the outcome of
\* the statement before.
appendZeros(first) ==
    IF IsErr(first) THEN first
    ELSE IF first.v.k = 2
    THEN NumpyAppend(first.v, NumpyZeros(Len(first.v.rows)), 1)
    ELSE first

normalize_item_bank(items) ==
    appendZeros(IF items.k = 1
                THEN NumpyAppend(NumpyOnes(Len(items.rows)), items, 1)
                ELSE Val(items, "ndarray"))

\* any(items[:, col] < 0), any(items[:, col] > 1); col counts from 0.
AnyBelow0(items, col) == \E i \in 1..Len(items.rows) : Lt(items.rows[i][col + 1], Zero)

AnyAbove1(items, col) == \E i \in 1..Len(items.rows) : Lt(One, items.rows[i][col + 1])

\* The string err when the checks are over, as the sequence of the messages
\* added to it.
Diagnostics(items) ==
    IF items.k > 3 THEN <<>>
    ELSE IF items.k < 3
    THEN IF items.k = 1
         THEN <<"Item matrix has no discrimination or pseudo-guessing parameter columns">>
         ELSE IF items.k = 2
         THEN <<"Item matrix has no pseudo-guessing parameter column">>
         ELSE <<>>
    ELSE (IF AnyBelow0(items, 2) THEN <<"There are items with discrimination < 0">>
          ELSE <<>>)
         \o (IF AnyBelow0(items, 2) THEN <<"There are items with pseudo-guessing < 0">>
             ELSE <<>>)
         \o (IF AnyAbove1(items, 2) THEN <<"There are items with pseudo-guessing > 1">>
             ELSE <<>>)

None == [kind |-> "val", v |-> "None", ty |-> "NoneType"]

\* validate_item_bank raising whatever raise_err says.
validateReturn_ignores_flag(err, warn, raise_err) ==
    IF Len(err) > 0
    THEN [ret |-> Raise("ValueError", err, <<>>), out |-> warn]
    ELSE [ret |-> None, out |-> Append(warn, err)]

\* if len(err) > 0 and raise_err: raise ValueError(err); print(err)
validateReturn(err, warn, raise_err) ==
    IF Len(err) > 0 /\ raise_err
    THEN [ret |-> Raise("ValueError", err, <<>>), out |-> warn]
    ELSE [ret |-> None, out |-> Append(warn, err)]

\* What the call returns or raises (ret) and what it prints (out).
validate_item_bank(items, raise_err) ==
    IF items.pytype # "ndarray"
    THEN [ret |-> Raise("ValueError", <<"Item matrix is not of type ndarray">>, <<>>),
          out |-> <<>>]
    ELSE validateReturn(Diagnostics(items),
                        IF items.k > 3
                        THEN << <<"Item matrix has more than 3 columns">> >>
                        ELSE <<>>,
                        raise_err)

(***************************************************************************)
(* Inputs                                                                  *)
(***************************************************************************)
Thetas == {FromInt(-800), Zero, FromInt(800)}

As == {Zero, One, FromInt(2), [n |-> 1, d |-> 1, e |-> 30]}

Bs == {Zero}

Cs == {FromInt(-1), Zero, One, FromInt(3)}

Types == {"float", "float64"}

\* The rows of the ndarray that test_info, see and reliability are given:
\* positive discriminations (theta = 800 gives the rows of no information).
ItemRows == {<<a, b, c>> : a \in As \ {Zero}, b \in Bs, c \in Cs}

Banks == UNION {[1..n -> ItemRows] : n \in 0..MaxRows}

\* The type of the entries of an ndarray.
ItemTypes == {"float64"}

\* The administered items of logLik: unit discrimination.
AdministeredRows == {<<One, b, c>> : b \in Bs, c \in Cs}

Administered == UNION {[1..n -> AdministeredRows] : n \in 0..MaxRows}

Responses == UNION {[1..n -> {0, 1}] : n \in 0..MaxRows}

\* The entries a matrix may hold in its j-th column.
ColumnValues(j) ==
    CASE j = 1 -> {FromInt(-1), FromInt(2)}
      [] j = 3 -> {FromInt(-1), Num(1, 2, 0), Num(3, 2, 0)}
      [] OTHER -> {Zero}

RECURSIVE RowsOf(_)
RowsOf(k) ==
    IF k = 0 THEN {<<>>}
    ELSE {Append(r, v) : r \in RowsOf(k - 1), v \in ColumnValues(k)}

\* The n x k matrices, n up to MaxRows and k up to 4.
Matrices ==
    UNION {{Matrix(k, rows) : rows \in UNION {[1..n -> RowsOf(k)] : n \in 0..MaxRows}}
           : k \in 0..4}

\* A Python list passed where the ndarray is expected.
PyList == [pytype |-> "list"]

(***************************************************************************)
(* The calls                                                               *)
(***************************************************************************)
Init ==
    /\ op = "none"
    /\ args = [theta |-> Zero]
    /\ ret = [kind |-> "none"]
    /\ stdout = <<>>

Call_tpm ==
    \E theta \in Thetas, a \in As, b \in Bs, c \in Cs, ty \in Types :
        /\ op = "none"
        /\ op' = "tpm"
        /\ args' = [theta |-> theta, a |-> a, b |-> b, c |-> c, ty |-> ty]
        /\ ret' = tpm(theta, a, b, c, ty)
        /\ stdout' = <<>>

Call_inf ==
    \E theta \in Thetas, a \in As, b \in Bs, c \in Cs, ty \in Types :
        /\ op = "none"
        /\ op' = "inf"
        /\ args' = [theta |-> theta, a |-> a, b |-> b, c |-> c, ty |-> ty]
        /\ ret' = inf(theta, a, b, c, ty)
        /\ stdout' = <<>>

Call_test_info ==
    \E theta \in Thetas, items \in Banks, ty \in ItemTypes :
        /\ op = "none"
        /\ op' = "test_info"
        /\ args' = [theta |-> theta, items |-> items, ty |-> ty]
        /\ ret' = test_info(theta, items, ty)
        /\ stdout' = <<>>

Call_see ==
    \E theta \in Thetas, items \in Banks, ty \in ItemTypes :
        /\ op = "none"
        /\ op' = "see"
        /\ args' = [theta |-> theta, items |-> items, ty |-> ty]
        /\ ret' = see(theta, items, ty)
        /\ stdout' = <<>>

Call_reliability ==
    \E theta \in Thetas, items \in Banks, ty \in ItemTypes :
        /\ op = "none"
        /\ op' = "reliability"
        /\ args' = [theta |-> theta, items |-> items, ty |-> ty]
        /\ ret' = reliability(theta, items, ty)
        /\ stdout' = <<>>

Call_logLik ==
    \E theta \in Thetas, rv \in Responses, items \in Administered :
        /\ op = "none"
        /\ op' = "logLik"
        /\ args' = [theta |-> theta, response_vector |-> rv, items |-> items]
        /\ ret' = logLik(theta, rv, items)
        /\ stdout' = <<>>

Call_negativelogLik ==
    \E theta \in Thetas, rv \in Responses, items \in Administered :
        /\ op = "none"
        /\ op' = "negativelogLik"
        /\ args' = [theta |-> theta, response_vector |-> rv, items |-> items]
        /\ ret' = negativelogLik(theta, rv, items)
        /\ stdout' = <<>>

Call_normalize_item_bank ==
    \E items \in Matrices :
        /\ op = "none"
        /\ op' = "normalize_item_bank"
        /\ args' = [items |-> items]
        /\ ret' = normalize_item_bank(items)
        /\ stdout' = <<>>

Call_validate_item_bank ==
    \E items \in Matrices \cup {PyList}, raise_err \in BOOLEAN :
        /\ op = "none"
        /\ op' = "validate_item_bank"
        /\ args' = [items |-> items, raise_err |-> raise_err]
        /\ ret' = validate_item_bank(items, raise_err).ret
        /\ stdout' = validate_item_bank(items, raise_err).out

\* The call is over: its caller goes on, and nothing of the call is kept.
Return ==
    /\ op # "none"
    /\ op' = "none"
    /\ args' = [theta |-> Zero]
    /\ ret' = [kind |-> "none"]
    /\ stdout' = <<>>

Next ==
    \/ Call_tpm
    \/ Call_inf
    \/ Call_test_info
    \/ Call_see
    \/ Call_reliability
    \/ Call_logLik
    \/ Call_negativelogLik
    \/ Call_normalize_item_bank
    \/ Call_validate_item_bank
    \/ Return

Spec == Init /\ [][Next]_vars

(***************************************************************************)
(* normalize_item_bank                                                     *)
(***************************************************************************)
\* The n x 3 matrix the docstring promises for a matrix of 1, 2 or 3 columns.
C1_Expected(items) ==
    Matrix(3, [i \in 1..Len(items.rows) |->
                 IF items.k = 1 THEN <<One, items.rows[i][1], Zero>>
                 ELSE IF items.k = 2 THEN <<items.rows[i][1], items.rows[i][2], Zero>>
                 ELSE items.rows[i]])

\* C1: normalize_item_bank on a matrix of k in {1, 2, 3} columns returns the
\* n x 3 matrix (a column of ones before and of zeros after for k = 1, a column
\* of zeros after for k = 2, the matrix itself for k = 3) and never an error.
C1_NormalizeExpands ==
    (op = "normalize_item_bank" /\ args.items.k \in {1, 2, 3}
     /\ Len(args.items.rows) >= 1)
        => (ret.kind = "val" /\ ret.v = C1_Expected(args.items))

(***************************************************************************)
(* validate_item_bank                                                      *)
(***************************************************************************)
\* The string err at the end of the call: raised, or else printed last.
Accumulated == IF IsErr(ret) THEN ret.msg ELSE stdout[Len(stdout)]

Mentions(msg) == \E i \in 1..Len(Accumulated) : Accumulated[i] = msg

\* C2: on a matrix of 3 columns a diagnostic is accumulated exactly when some
\* row has a < 0, c < 0 or c > 1, and "discrimination < 0" is reported only
\* when some row has a < 0.
C2_IndependentChecks ==
    (op = "validate_item_bank" /\ args.items.pytype = "ndarray" /\ args.items.k = 3)
        => /\ (Accumulated # <<>>)
                <=> (\/ AnyBelow0(args.items, 0)
                     \/ AnyBelow0(args.items, 2)
                     \/ AnyAbove1(args.items, 2))
           /\ Mentions("There are items with discrimination < 0")
                => AnyBelow0(args.items, 0)

\* The inputs C3 names: fewer than 3 columns with a message to give, or a row
\* with c outside [0, 1].
C3_Diagnosed(items) ==
    \/ items.k \in {1, 2}
    \/ items.k = 3 /\ (AnyBelow0(items, 2) \/ AnyAbove1(items, 2))

C3_Names(items) ==
    /\ items.k = 1 =>
         Accumulated = <<"Item matrix has no discrimination or pseudo-guessing parameter columns">>
    /\ items.k = 2 =>
         Accumulated = <<"Item matrix has no pseudo-guessing parameter column">>
    /\ (items.k = 3 /\ AnyAbove1(items, 2)) =>
         Mentions("There are items with pseudo-guessing > 1")

\* C3: raise_err selects the failure mode. Whenever a diagnostic is accumulated
\* for an ndarray, the call raises ValueError with the accumulated message if
\* raise_err is true, and returns normally having printed it if raise_err is
\* false; fewer than 3 columns and a c outside [0, 1] are such inputs.
C3_RaiseErrSelects ==
    (op = "validate_item_bank" /\ args.items.pytype = "ndarray")
        => /\ C3_Diagnosed(args.items) => (Accumulated # <<>> /\ C3_Names(args.items))
           /\ (Accumulated # <<>> /\ args.raise_err)
                => (IsErr(ret) /\ ret.exc = "ValueError" /\ ret.msg = Accumulated
                    /\ \A i \in 1..Len(stdout) : stdout[i] # Accumulated)
           /\ ~args.raise_err
                => (ret = None /\ stdout # <<>> /\ stdout[Len(stdout)] = Accumulated)

\* A row with c = 1.5 is rejected by an exception under raise_err.
C3_Witness ==
    /\ op = "validate_item_bank"
    /\ args.items.pytype = "ndarray"
    /\ args.items.k = 3
    /\ \E i \in 1..Len(args.items.rows) : args.items.rows[i][3] = Num(3, 2, 0)
    /\ args.raise_err
    /\ IsErr(ret)
    /\ ret.msg = <<"There are items with pseudo-guessing > 1">>

(***************************************************************************)
(* logLik                                                                  *)
(***************************************************************************)
\* C4: with len(response_vector) different from the number of rows, logLik
\* raises the ValueError of its length check whatever theta and the items are:
\* no tpm and no logarithm is evaluated before.
C4_LengthCheckedFirst ==
    (op = "logLik" /\ Len(args.response_vector) # Len(args.items))
        => ret = LengthMismatch

\* Lengths 2 and 1 at theta = -800, where the first tpm would overflow.
C4_Witness ==
    /\ op = "logLik"
    /\ Len(args.response_vector) = 2
    /\ Len(args.items) = 1
    /\ args.theta = FromInt(-800)
    /\ IsErr(tpm(args.theta, args.items[1][1], args.items[1][2], args.items[1][3],
                 "float64"))
    /\ ret = LengthMismatch

\* The items are valid (0 <= c < 1) and no tpm of the call overflows.
C5_NoOverflow ==
    \A i \in 1..Len(args.items) :
        /\ Le(Zero, args.items[i][3])
        /\ Lt(args.items[i][3], One)
        /\ ~IsErr(tpm(args.theta, args.items[i][1], args.items[i][2], args.items[i][3],
                   "float64"))

\* C5: for inputs of equal length logLik always returns a value: a probability
\* saturated to 0 or 1 is clamped before its logarithm is taken.
C5_LogLikNeverFails ==
    (op = "logLik" /\ Len(args.response_vector) = Len(args.items) /\ C5_NoOverflow)
        => ret.kind = "val"

(***************************************************************************)
(* tpm                                                                     *)
(***************************************************************************)
\* C6: when math.exp overflows, tpm raises an OverflowError that carries
\* (theta, a, b, c), and no error of another kind.
C6_OverflowResignalled ==
    (op = "tpm" /\ IsErr(MathExp(Mul(Neg(args.a), Sub(args.theta, args.b)))))
        => (IsErr(ret) /\ ret.exc = "OverflowError"
            /\ ret.vals = <<args.theta, args.a, args.b, args.c>>)

(***************************************************************************)
(* inf                                                                     *)
(***************************************************************************)
\* a^2 * ((P - c) / (1 - c))^2 * (1 - P) / P
C7_Formula(P, a, c) ==
    DivF(Mul(Mul(Pow(a), Pow(DivF(Sub(P, c), Sub(One, c)))), Sub(One, P)), P)

C7_Holds(ml3) ==
    ~IsErr(ml3) =>
        IF args.c = One \/ ml3.v = Zero
        THEN IsErr(ret) /\ ret.exc \in {"ZeroDivisionError", "ValueError"}
        ELSE ret.kind = "val" /\ ret.v = C7_Formula(ml3.v, args.a, args.c)

\* C7: inf ends in a domain error whenever c = 1 or P = 0, never returning nan
\* or an infinity, and returns a^2 * ((P-c)/(1-c))^2 * (1-P)/P otherwise.
C7_SingularitiesRaise ==
    op = "inf" => C7_Holds(tpm(args.theta, args.a, args.b, args.c, args.ty))

(***************************************************************************)
(* test_info, see, reliability                                             *)
(***************************************************************************)
\* The sum of inf over the rows 1..k, each once, in the order of the rows.
RECURSIVE C8_Sum(_, _, _, _)
C8_Sum(theta, items, ty, k) ==
    IF k = 0 THEN Zero
    ELSE Add(C8_Sum(theta, items, ty, k - 1),
             inf(theta, items[k][1], items[k][2], items[k][3], ty).v)

\* C8: test_info is the sum of inf over every row, each row once and none left
\* out; it is 0 for no rows.
C8_TestInfoIsSum ==
    op = "test_info"
        => /\ args.items = <<>> => ret = Val(Zero, "int")
           /\ Raising(args.theta, args.items, args.ty) = {}
                => (ret.kind = "val"
                    /\ ret.v = C8_Sum(args.theta, args.items, args.ty, Len(args.items)))

\* Twice the same row of information 1/4: the sum is 1/2.
C8_Witness ==
    /\ op = "test_info"
    /\ args.theta = Zero
    /\ args.items = << <<One, Zero, Zero>>, <<One, Zero, Zero>> >>
    /\ ret.kind = "val"
    /\ ret.v = Num(1, 2, 0)

\* v * v, for a root too
C9_Square(v) == IF IsSurd(v) THEN v.sqrtOf ELSE Mul(v, v)

C9_Holds(ti) ==
    ~IsErr(ti) =>
        /\ Lt(Zero, ti.v)
             => (ret.kind = "val" /\ C9_Square(ret.v) = DivF(One, ti.v)
                 /\ (IsSurd(ret.v) \/ ret.v.n >= 0))
        /\ Le(ti.v, Zero)
             => (IsErr(ret) /\ ret.exc \in {"ZeroDivisionError", "ValueError"})

\* C9: see returns 1 / sqrt(test_info) when the test information is positive
\* and ends in a domain error, returning nothing, when it is <= 0; on no rows
\* it raises.
C9_SeeOrDomainError ==
    op = "see"
        => /\ C9_Holds(test_info(args.theta, args.items, args.ty))
           /\ args.items = <<>> => IsErr(ret)

\* see on the empty item set
C9_Witness ==
    /\ op = "see"
    /\ args.items = <<>>
    /\ IsErr(ret)
    /\ ret.exc = "ZeroDivisionError"

C10_Original(ti) ==
    (~IsErr(ti) /\ IsFinite(ti.v) /\ Lt(Zero, ti.v))
        => /\ ret.kind = "val"
           /\ ret.v = Sub(One, Rounded(DivF(One, ti.v)))
           /\ Lt(ret.v, One)
           /\ Lt(ret.v, Zero) <=> Lt(ti.v, One)

\* C10 as claimed: reliability returns 1 - 1/test_info unclamped; with positive
\* (finite) test information the result is strictly below 1, and negative exactly when
\* the test information is below 1.
C10_StrictlyBelowOne ==
    op = "reliability" => C10_Original(test_info(args.theta, args.items, args.ty))

C10_Amended(ti) ==
    (~IsErr(ti) /\ Lt(Zero, ti.v))
        => /\ ret.kind = "val"
           /\ ret.v = Sub(One, Rounded(DivF(One, ti.v)))
           /\ Le(ret.v, One)
           /\ Lt(ti.v, [n |-> 1, d |-> 1, e |-> 53]) => Lt(ret.v, One)
           /\ Lt(ret.v, Zero) <=> Lt(ti.v, One)

\* C10 amended: reliability returns 1 - 1/test_info unclamped; with positive
\* test information the result is at most 1, strictly below 1 while the test
\* information is below 2^53 (from 2^54 on, 1/test_info is at most half the
\* distance from 1 to the double below it and the result is 1.0), and negative
\* exactly when the test information is below 1, as a value.
C10_AtMostOne ==
    op = "reliability" => C10_Amended(test_info(args.theta, args.items, args.ty))

\* One item of information 1/4: the reliability is -3, returned.
C10_Witness ==
    /\ op = "reliability"
    /\ args.items = << <<One, Zero, Zero>> >>
    /\ args.theta = Zero
    /\ ret.kind = "val"
    /\ ret.v = FromInt(-3)

\* What C11 asks of the outcome of negativelogLik, LL being the outcome of
\* logLik on the same inputs: the same error, or a value of the same type
\* whose sum with LL is 0.
C11_Holds(LL) ==
    IF IsErr(LL) THEN ret = LL
    ELSE /\ ret.kind = "val"
         /\ ret.ty = LL.ty
         /\ AddLog(ret.v, LL.v) = [lnOf |-> One]

\* C11: negativelogLik(theta, responses, items) equals -logLik(theta, responses,
\* items) for all valid inputs, and whenever logLik fails on the same inputs
\* (length mismatch, overflow, log of zero) negativelogLik fails with the same
\* error and returns no value.
C11_NegativeIsMinusLogLik ==
    op = "negativelogLik"
        => C11_Holds(logLik(args.theta, args.response_vector, args.items))

\* Two correct responses to [[1, 0, 0]] twice at theta = 0: logLik is 2 ln(1/2)
\* and negativelogLik returns ln 4.
C11_Witness ==
    /\ op = "negativelogLik"
    /\ args.theta = Zero
    /\ args.items = << <<One, Zero, Zero>>, <<One, Zero, Zero>> >>
    /\ args.response_vector = <<1, 1>>
    /\ ret.kind = "val"
    /\ ret.v = [lnOf |-> FromInt(4)]

\* C12: validate_item_bank requires at least one row: for an ndarray of 3
\* columns and no rows a diagnostic is accumulated (printed when raise_err is
\* false) and, when raise_err is true, a ValueError is raised.
C12_ZeroRowsRejected ==
    (op = "validate_item_bank" /\ args.items.pytype = "ndarray"
     /\ args.items.k = 3 /\ Len(args.items.rows) = 0)
        => IF args.raise_err
           THEN ret.kind = "err" /\ ret.exc = "ValueError"
           ELSE \E i \in 1..Len(stdout) : Len(stdout[i]) > 0

====
